---- MODULE Spec2Model ----
\* A model of the distributed cache: the cache node (RobustCache) with its
\* eviction policies, request coalescer and writers, the write-back worker
\* (SafeWriteBackWriter) and the router (DistributedCache) on its hash ring.
EXTENDS Integers, Sequences, FiniteSets, TLC

\* ---------------------------------------------------------------- bounds

\* Client threads calling get/put on one node.
NumThreads == 2
\* Total number of get/put calls started on the node.
MaxOps == 3
\* capacity argument of RobustCache.
capacity == 1
\* Number of loader.load / db.set calls that may raise on the node.
MaxFail == 1

Threads == 1..NumThreads

\* Keys of the node: the empty string is a legal (hashable) key.
Keys == {"", "a"}
\* Each thread of the node puts a value of its own; "d" is what the
\* database holds at the start.
PutValue(t) == IF t = 1 THEN "v1" ELSE IF t = 2 THEN "v2" ELSE "v3"
\* Python's None (an absent value, an absent victim).
None == "None"

\* ------------------------------------------------------- python helpers

EmptyMap == [x \in {} |-> None]

\* d[k] = v on a dict
DictSet(d, k, v) == [x \in (DOMAIN d) \cup {k} |-> IF x = k THEN v ELSE d[x]]

\* del d[k] on a dict
DictDel(d, k) == [x \in (DOMAIN d) \ {k} |-> d[x]]

\* d.get(k): None when k is missing
DictGet(d, k) == IF k \in DOMAIN d THEN d[k] ELSE None

\* list.remove(x) / del ordered_dict[x] on a sequence without duplicates
SeqRemove(s, x) == SelectSeq(s, LAMBDA y : y # x)

\* Truth value of a key in `if victim:`: None and the empty string are falsy.
Truthy(x) == x # None /\ x # ""

\* --------------------------------------------------------------- state

VARIABLES
    \* RobustCache
    storage,          \* self.storage: key -> value
    eviction,         \* self.eviction: the policy's state
    lock,             \* self.lock: the thread holding it, or 0
    cap,              \* self.capacity
    hasLoader,        \* whether a loader was given
    writerKind,       \* "none" | "through" | "back": the writer given
    db,               \* the database behind loader and writer: key -> value | None
    \* RequestCoalescer
    active_requests,  \* key -> event
    eventsSet,        \* the events that are set
    nextEvent,        \* identity of the next threading.Event()
    results,          \* key -> value
    errors,           \* key -> exception
    \* the calling threads: where each is, and the frame of its call
    pc, opKind, opKey, opVal, event, wait, result, exc,
    opsStarted, nFail,
    \* history
    early,            \* thread -> whether its call began before any call ended
    bound,            \* thread -> whether a put of its key had returned when its
                      \* get began, the key not being deleted from storage since
    fresh,            \* thread -> values its get may return without being stale:
                      \* lastPut when it began and the puts that returned since
    snap,             \* thread -> (storage, eviction) when its put took the lock
    lastPut,          \* key -> value of the last put that returned, None once
                      \* the key was deleted from storage or before any put
    wave,             \* the calls that began before any call ended: how many,
                      \* which, how many ended, their outcomes and their loads
    winOutcome,       \* event -> what the leader of that window returns or raises
    ret,              \* the call that ended last and its outcome
    \* a node or a policy called by one thread, one call at a time
    seqOps,           \* number of calls made
    clock,            \* history: number of accesses made
    touch,            \* history: key -> clock of its most recent access, 0 if none
    count,            \* history: key -> its accesses since it was inserted
    last,             \* history: the last call, what it removed and returned
    putLast,          \* history: key -> value of the last put that updated the
                      \* node's memory, None before any (eviction keeps it)
    \* SafeWriteBackWriter
    queue,            \* self.queue: orders and the stop signal, oldest first
    workerPc,         \* the worker: "get" | "set" | "exited"
    item,             \* the item the worker took
    closePc,          \* close(): "none" | "join" | "done"
    wbFail,           \* number of db.set calls of the worker that raised
    writeLog,         \* history: orders whose write returned, in order
    setLog,           \* history: orders passed to db.set, in order
    writesAtClose,    \* history: Len(writeLog) when close was called
    failLog,          \* history: positions in setLog of the db.set calls that raised
    \* DistributedCache and its ConsistentHashing
    node_map,         \* labels of self.node_map, in insertion order
    writerOf,         \* label -> "none" | "through" | "back": the node's writer
    ring,             \* self.ring: (pos, node) entries in insertion order
    sorted_keys,      \* self.sorted_keys
    rpc, rop, rkey, ridx, rnode_key, rname, rout,   \* threads calling get/put
    routed,           \* number of router get/put calls started
    tpc, tname, ti, keys_to_remove, topoOps,        \* the thread changing nodes
    cpc, citer, csize, closeCalled, closeMap,       \* the thread calling close
    \* a ConsistentHashing called directly, one call at a time
    ringOps,          \* number of add_node/remove_node/get_node calls made
    got,              \* what the last get_node returned or raised
    saved,            \* history: the ring before the last add_node of a new label
    savedLabel,       \* history: that label
    undo              \* history: "added" after that add_node, "removed" when
                      \* remove_node of the label came next, else "none"

cacheVars == <<storage, eviction, lock, cap, hasLoader, writerKind, db>>
coalVars  == <<active_requests, eventsSet, nextEvent, results, errors>>
frameVars == <<pc, opKind, opKey, opVal, event, wait, result, exc, early, bound,
               fresh, snap>>
countVars == <<opsStarted, nFail>>
histVars  == <<lastPut, wave, winOutcome, ret>>
thrVars   == <<frameVars, countVars>>
seqVars   == <<seqOps, clock, touch, count, last, putLast>>
nodeVars  == <<cacheVars, coalVars, thrVars, histVars, seqVars>>
wbVars    == <<queue, workerPc, item, closePc, wbFail, writeLog, setLog,
               writesAtClose, failLog>>
ringVars  == <<ring, sorted_keys>>
routeVars == <<rpc, rop, rkey, ridx, rnode_key, rname, rout, routed>>
topoVars  == <<tpc, tname, ti, keys_to_remove, topoOps>>
closeVars == <<cpc, citer, csize, closeCalled, closeMap>>
ringCallVars == <<ringOps, got, saved, savedLabel, undo>>
routerVars == <<node_map, writerOf, ringVars, routeVars, topoVars, closeVars,
                ringCallVars>>

\* --------------------------------------------------------- LRU policy

LRU_init == [kind |-> "LRU", order |-> <<>>, key_freq |-> EmptyMap,
             freq_keys |-> EmptyMap, min_freq |-> 0]

LRU_on_access(p, key) == [p EXCEPT !.order = Append(SeqRemove(p.order, key), key)]

LRU_evict(p) ==
    IF p.order # <<>>
    THEN [policy |-> [p EXCEPT !.order = Tail(p.order)], victim |-> Head(p.order),
          raised |-> FALSE]
    ELSE [policy |-> p, victim |-> None, raised |-> FALSE]

\* --------------------------------------------------------- LFU policy

LFU_init == [kind |-> "LFU", order |-> <<>>, key_freq |-> EmptyMap,
             freq_keys |-> EmptyMap, min_freq |-> 0]

\* freq_keys is a defaultdict(OrderedDict): reading a missing bucket makes it.
Bucket(fk, f) == IF f \in DOMAIN fk THEN fk[f] ELSE <<>>

LFU_on_access(p, key) ==
    IF key \in DOMAIN p.key_freq
    THEN LET old_freq == p.key_freq[key]
             rest     == SeqRemove(Bucket(p.freq_keys, old_freq), key)
             emptied  == rest = <<>>
             fk1      == IF emptied THEN DictDel(p.freq_keys, old_freq)
                         ELSE DictSet(p.freq_keys, old_freq, rest)
             mf       == IF emptied /\ p.min_freq = old_freq
                         THEN p.min_freq + 1 ELSE p.min_freq
             new_freq == old_freq + 1
         IN [p EXCEPT !.key_freq = DictSet(p.key_freq, key, new_freq),
                      !.freq_keys = DictSet(fk1, new_freq,
                                            Append(Bucket(fk1, new_freq), key)),
                      !.min_freq = mf]
    ELSE [p EXCEPT !.key_freq = DictSet(p.key_freq, key, 1),
                   !.freq_keys = DictSet(p.freq_keys, 1,
                                         Append(Bucket(p.freq_keys, 1), key)),
                   !.min_freq = 1]

\* popitem on an empty bucket raises KeyError (the bucket read has made it).
LFU_evict(p) ==
    IF DOMAIN p.key_freq = {}
    THEN [policy |-> p, victim |-> None, raised |-> FALSE]
    ELSE LET victim_candidates == Bucket(p.freq_keys, p.min_freq)
         IN IF victim_candidates = <<>>
            THEN [policy |-> [p EXCEPT !.freq_keys =
                                 DictSet(p.freq_keys, p.min_freq, <<>>)],
                  victim |-> None, raised |-> TRUE]
            ELSE LET victim_key == Head(victim_candidates)
                     rest == Tail(victim_candidates)
                     fk1  == IF rest = <<>> THEN DictDel(p.freq_keys, p.min_freq)
                             ELSE DictSet(p.freq_keys, p.min_freq, rest)
                 IN [policy |-> [p EXCEPT !.freq_keys = fk1,
                                          !.key_freq = DictDel(p.key_freq, victim_key)],
                     victim |-> victim_key, raised |-> FALSE]

\* ------------------------------------------- EvictionPolicy interface

on_access(p, key) ==
    IF p.kind = "LRU" THEN LRU_on_access(p, key) ELSE LFU_on_access(p, key)

evict(p) == IF p.kind = "LRU" THEN LRU_evict(p) ELSE LFU_evict(p)

\* Keys the policy tracks.
PolicyKeys(p) ==
    IF p.kind = "LRU" THEN {p.order[i] : i \in 1..Len(p.order)} ELSE DOMAIN p.key_freq

\* ------------------------------------------------ RobustCache insert

\* `if victim:` guards the delete from storage.
VictimDeleted(victim) == Truthy(victim)

\* _put_internal on (storage, policy): the new pair, the key deleted from
\* storage (None when none was) and whether it raised (KeyError).
put_internal(st, pol, key, value) ==
    IF key \notin DOMAIN st /\ Cardinality(DOMAIN st) >= cap
    THEN LET ev == evict(pol)
         IN IF ev.raised
            THEN [storage |-> st, eviction |-> ev.policy, deleted |-> None,
                  raised |-> TRUE]
            ELSE IF VictimDeleted(ev.victim)
            THEN IF ev.victim \in DOMAIN st
                 THEN [storage |-> DictSet(DictDel(st, ev.victim), key, value),
                       eviction |-> on_access(ev.policy, key),
                       deleted |-> ev.victim, raised |-> FALSE]
                 ELSE [storage |-> st, eviction |-> ev.policy, deleted |-> None,
                       raised |-> TRUE]
            ELSE [storage |-> DictSet(st, key, value),
                  eviction |-> on_access(ev.policy, key),
                  deleted |-> None, raised |-> FALSE]
    ELSE [storage |-> DictSet(st, key, value), eviction |-> on_access(pol, key),
          deleted |-> None, raised |-> FALSE]

\* ------------------------------------------------------------ outcomes

NoOutcome == [kind |-> "none", val |-> None, err |-> 0]
NoExc     == [val |-> None, err |-> 0]
Ok(v)     == [kind |-> "ok", val |-> v, err |-> 0]
Raised(e) == [kind |-> "err", val |-> e.val, err |-> e.err]

NoSnap == [storage |-> EmptyMap, eviction |-> LRU_init]

NoReturn == [thread |-> 0, op |-> "none", key |-> None, outcome |-> NoOutcome,
             follower |-> FALSE, event |-> 0, bound |-> FALSE, fresh |-> {}]

NoWave == [size |-> 0, calls |-> {}, done |-> 0, outcomes |-> {}, loads |-> 0]

\* Keys of a node called by one thread; "" is a legal key.
SeqKeys == {"", "a", "b", "c"}

NoCall == [op |-> "none", key |-> None, full |-> FALSE, removed |-> {},
           victim |-> None, raised |-> FALSE]

\* No call has been made by the single thread.
SeqInit ==
    /\ seqOps = 0
    /\ clock = 0
    /\ touch = [k \in SeqKeys |-> 0]
    /\ count = [k \in SeqKeys |-> 0]
    /\ last = NoCall
    /\ putLast = [k \in SeqKeys |-> None]

\* RobustCache.__init__, lines 21-27, but for capacity and database: a
\* policy, a loader or none, and a writer or none; no thread has called yet.
NodeStateInit(policy, loader, writer) ==
    /\ storage = EmptyMap
    /\ eviction = policy
    /\ lock = 0
    /\ hasLoader = loader
    /\ writerKind = writer
    /\ SeqInit
    /\ active_requests = EmptyMap
    /\ eventsSet = {}
    /\ nextEvent = 1
    /\ results = EmptyMap
    /\ errors = EmptyMap
    /\ pc = [t \in Threads |-> "idle"]
    /\ opKind = [t \in Threads |-> "none"]
    /\ opKey = [t \in Threads |-> None]
    /\ opVal = [t \in Threads |-> None]
    /\ event = [t \in Threads |-> 0]
    /\ wait = [t \in Threads |-> FALSE]
    /\ result = [t \in Threads |-> None]
    /\ exc = [t \in Threads |-> NoExc]
    /\ opsStarted = 0
    /\ nFail = 0
    /\ early = [t \in Threads |-> FALSE]
    /\ bound = [t \in Threads |-> FALSE]
    /\ fresh = [t \in Threads |-> {}]
    /\ snap = [t \in Threads |-> NoSnap]
    /\ lastPut = [k \in Keys |-> None]
    /\ wave = NoWave
    /\ winOutcome = EmptyMap
    /\ ret = NoReturn

\* RobustCache.__init__, lines 21-27, over a database that holds key "a".
NodeInitWith(policy, loader, writer) ==
    /\ NodeStateInit(policy, loader, writer)
    /\ cap = capacity
    /\ db = [k \in Keys |-> IF k = "a" THEN "d" ELSE None]

\* A node with a fresh LRU or LFU policy, with or without a loader, with a
\* write-through writer or none.
NodeInit ==
    \E policy \in {LRU_init, LFU_init}, loader \in BOOLEAN, writer \in {"none", "through"} :
        NodeInitWith(policy, loader, writer)

\* The node of a specification in which no thread calls it.
NodeIdle == NodeInitWith(LRU_init, TRUE, "none")

\* ------------------------------------------------------ calls on a node

configVars == <<cap, hasLoader, writerKind>>
callVars   == <<opKind, opKey, opVal, early, opsStarted>>
roleVars   == <<event, wait>>

\* A thread calls get(k) or put(k, v).
Call(t, kind, k, v) ==
    /\ pc[t] = "idle"
    /\ opsStarted < MaxOps
    /\ opsStarted' = opsStarted + 1
    /\ pc' = [pc EXCEPT ![t] = kind]
    /\ opKind' = [opKind EXCEPT ![t] = kind]
    /\ opKey' = [opKey EXCEPT ![t] = k]
    /\ opVal' = [opVal EXCEPT ![t] = v]
    /\ early' = [early EXCEPT ![t] = wave.done = 0]
    /\ wave' = IF wave.done = 0
               THEN [wave EXCEPT !.size = @ + 1, !.calls = @ \cup {<<kind, k>>}]
               ELSE wave
    /\ bound' = [bound EXCEPT ![t] = kind = "get" /\ lastPut[k] # None]
    /\ fresh' = [fresh EXCEPT ![t] = IF kind = "get" /\ lastPut[k] # None
                                     THEN {lastPut[k]} ELSE {}]
    /\ UNCHANGED <<cacheVars, coalVars, roleVars, result, exc, snap, nFail, lastPut,
                   winOutcome, ret>>
    /\ UNCHANGED <<wbVars, routerVars, seqVars>>

CallGet(t) == \E k \in Keys : Call(t, "get", k, None)

CallPut(t) == \E k \in Keys : Call(t, "put", k, PutValue(t))

\* The events some call other than t's still refers to, and t's own.
LiveEvents(t) == {event[u] : u \in {x \in Threads : x = t \/ pc[x] # "idle"}}

\* The call of thread t returns or raises with outcome oc; its frame is gone.
\* bnd and fr are bound and fresh as the step leaves them for the others.
Return(t, oc, bnd, fr) ==
    /\ pc' = [pc EXCEPT ![t] = "idle"]
    /\ opKind' = [opKind EXCEPT ![t] = "none"]
    /\ opKey' = [opKey EXCEPT ![t] = None]
    /\ opVal' = [opVal EXCEPT ![t] = None]
    /\ event' = [event EXCEPT ![t] = 0]
    /\ wait' = [wait EXCEPT ![t] = FALSE]
    /\ result' = [result EXCEPT ![t] = None]
    /\ exc' = [exc EXCEPT ![t] = NoExc]
    /\ early' = [early EXCEPT ![t] = FALSE]
    /\ bound' = [bnd EXCEPT ![t] = FALSE]
    /\ fresh' = [fr EXCEPT ![t] = {}]
    /\ snap' = [snap EXCEPT ![t] = NoSnap]
    /\ ret' = [thread |-> t, op |-> opKind[t], key |-> opKey[t], outcome |-> oc,
               follower |-> wait[t], event |-> event[t], bound |-> bound[t],
               fresh |-> fresh[t]]
    /\ wave' = IF early[t]
               THEN [wave EXCEPT !.done = @ + 1, !.outcomes = @ \cup {oc}]
               ELSE wave
    /\ winOutcome' = [e \in (DOMAIN winOutcome) \cap LiveEvents(t) |-> winOutcome[e]]

\* The call of thread t goes on at p, with local result res and exception ex.
Goto(t, p, res, ex) ==
    /\ pc' = [pc EXCEPT ![t] = p]
    /\ result' = [result EXCEPT ![t] = res]
    /\ exc' = [exc EXCEPT ![t] = ex]
    /\ UNCHANGED <<callVars, snap, ret>>

\* The thread is in a get of key k that has not returned.
InGet(t, k) == opKind[t] = "get" /\ opKey[t] = k

\* History of an insert. The key deleted from storage (None when none was)
\* has no last put any more, and the gets of it in progress are no longer
\* bound to one; a put of key k that returns is the last put of k, and fresh
\* for the gets of k in progress.
LastPutAfter(deleted, k, v, isPut) ==
    [x \in Keys |-> IF isPut /\ x = k THEN v
                    ELSE IF x = deleted THEN None ELSE lastPut[x]]

BoundAfter(deleted) ==
    [u \in Threads |-> bound[u] /\ ~(deleted # None /\ InGet(u, deleted))]

\* History of a put of (k, v): once its _put_internal has run it is the last
\* put of k, whatever is evicted later.
PutLastAfter(k, v, isPut) ==
    IF isPut THEN [putLast EXCEPT ![k] = v] ELSE putLast

FreshAfter(k, v, isPut) ==
    [u \in Threads |-> IF isPut /\ InGet(u, k) THEN fresh[u] \cup {v} ELSE fresh[u]]

\* A get that goes on to the coalescer inside its `with self.lock` block.
lock_kept_after_check(t) == t

\* get, lines 31-37: the `with self.lock` block ends before the miss path,
\* the lock is free when the thread goes on.
lock_after_check(t) == 0

\* get, lines 31-45: the hit check under the lock, and the miss without a loader.
GetCheck(t) ==
    /\ pc[t] = "get"
    /\ lock = 0
    /\ IF opKey[t] \in DOMAIN storage
       THEN /\ eviction' = on_access(eviction, opKey[t])
            /\ lock' = 0
            /\ Return(t, Ok(storage[opKey[t]]), bound, fresh)
       ELSE /\ eviction' = eviction
            /\ IF hasLoader
               THEN /\ lock' = lock_after_check(t)
                    /\ Goto(t, "do", result[t], exc[t])
                    /\ UNCHANGED <<roleVars, bound, fresh, wave, winOutcome>>
               ELSE /\ lock' = 0
                    /\ Return(t, Ok(None), bound, fresh)
    /\ UNCHANGED <<storage, db, configVars, coalVars, countVars, lastPut>>
    /\ UNCHANGED <<wbVars, routerVars, seqVars>>

\* A coalescer that never finds a call record: every caller leads.
IsInFlight_Never(key) == FALSE

\* `key in self.active_requests`
IsInFlight(key) == key \in DOMAIN active_requests

\* do, lines 26-36: join the window in flight or open one.
DoEnter(t) ==
    /\ pc[t] = "do"
    /\ IF IsInFlight(opKey[t])
       THEN /\ event' = [event EXCEPT ![t] = active_requests[opKey[t]]]
            /\ wait' = [wait EXCEPT ![t] = TRUE]
            /\ Goto(t, "f_wait", result[t], exc[t])
            /\ UNCHANGED <<active_requests, nextEvent>>
       ELSE /\ event' = [event EXCEPT ![t] = nextEvent]
            /\ nextEvent' = nextEvent + 1
            /\ active_requests' = DictSet(active_requests, opKey[t], nextEvent)
            /\ wait' = [wait EXCEPT ![t] = FALSE]
            /\ Goto(t, "l_load", result[t], exc[t])
    /\ UNCHANGED <<cacheVars, eventsSet, results, errors, countVars, bound, fresh,
                   lastPut, wave, winOutcome>>
    /\ UNCHANGED <<wbVars, routerVars, seqVars>>

\* do, lines 40-43: the follower's wait is over; a stored error is raised.
FollowerWake(t) ==
    /\ pc[t] = "f_wait"
    /\ event[t] \in eventsSet
    /\ IF opKey[t] \in DOMAIN errors
       THEN Return(t, Raised(errors[opKey[t]]), bound, fresh)
       ELSE /\ Goto(t, "f_res", result[t], exc[t])
            /\ UNCHANGED <<roleVars, bound, fresh, wave, winOutcome>>
    /\ UNCHANGED <<cacheVars, coalVars, countVars, lastPut>>
    /\ UNCHANGED <<wbVars, routerVars, seqVars>>

\* do, line 44: the follower returns self.results.get(key).
FollowerResult(t) ==
    /\ pc[t] = "f_res"
    /\ Return(t, Ok(DictGet(results, opKey[t])), bound, fresh)
    /\ UNCHANGED <<cacheVars, coalVars, countVars, lastPut>>
    /\ UNCHANGED <<wbVars, routerVars, seqVars>>

\* A load whose value is inserted even when it is None.
InsertsLoaded_Always(value) == TRUE

\* _load_from_source, line 53: `if value is not None`
InsertsLoaded(value) == value # None

\* _load_from_source, lines 52-53: loader.load(key) reads the database, or
\* raises; a value that is not None is inserted next.
LeaderLoad(t) ==
    /\ pc[t] = "l_load"
    /\ wave' = IF early[t] THEN [wave EXCEPT !.loads = @ + 1] ELSE wave
    /\ \/ /\ Goto(t, IF InsertsLoaded(db[opKey[t]]) THEN "l_ins" ELSE "l_store",
                  db[opKey[t]], exc[t])
          /\ UNCHANGED nFail
       \/ /\ nFail < MaxFail
          /\ nFail' = nFail + 1
          /\ Goto(t, "l_err", result[t], [val |-> "LoadFailed", err |-> event[t]])
    /\ UNCHANGED <<cacheVars, coalVars, roleVars, opsStarted, bound, fresh, lastPut,
                   winOutcome>>
    /\ UNCHANGED <<wbVars, routerVars, seqVars>>

\* _put_internal_thread_safe, lines 61-63, called by _load_from_source line 58.
\* The lock is an RLock: the thread that holds it enters again.
LeaderInsert(t) ==
    /\ pc[t] = "l_ins"
    /\ lock \in {0, t}
    /\ LET r == put_internal(storage, eviction, opKey[t], result[t])
       IN /\ storage' = r.storage
          /\ eviction' = r.eviction
          /\ lastPut' = LastPutAfter(r.deleted, opKey[t], result[t], FALSE)
          /\ bound' = BoundAfter(r.deleted)
          /\ fresh' = fresh
          /\ IF r.raised
             THEN Goto(t, "l_err", result[t], [val |-> "KeyError", err |-> event[t]])
             ELSE Goto(t, "l_store", result[t], exc[t])
    /\ UNCHANGED <<lock, db, configVars, coalVars, roleVars, countVars, wave,
                   winOutcome>>
    /\ UNCHANGED <<wbVars, routerVars, seqVars>>

\* do, lines 49-50: the leader stores the result it will return.
LeaderStore(t) ==
    /\ pc[t] = "l_store"
    /\ results' = DictSet(results, opKey[t], result[t])
    /\ winOutcome' = DictSet(winOutcome, event[t], Ok(result[t]))
    /\ Goto(t, "l_set", result[t], exc[t])
    /\ UNCHANGED <<cacheVars, active_requests, eventsSet, nextEvent, errors, roleVars,
                   countVars, bound, fresh, lastPut, wave>>
    /\ UNCHANGED <<wbVars, routerVars, seqVars>>

\* A leader whose event.set() is skipped when the thunk raised.
AfterLeaderErr_NoSet == "l_clean"

\* do, lines 56-58: event.set() is in the finally block, it also runs after
\* the except block.
AfterLeaderErr == "l_set"

\* do, lines 51-55: the leader stores the error it will raise.
LeaderErr(t) ==
    /\ pc[t] = "l_err"
    /\ errors' = DictSet(errors, opKey[t], exc[t])
    /\ winOutcome' = DictSet(winOutcome, event[t], Raised(exc[t]))
    /\ Goto(t, AfterLeaderErr, result[t], exc[t])
    /\ UNCHANGED <<cacheVars, active_requests, eventsSet, nextEvent, results, roleVars,
                   countVars, bound, fresh, lastPut, wave>>
    /\ UNCHANGED <<wbVars, routerVars, seqVars>>

\* do, line 58: event.set()
LeaderSet(t) ==
    /\ pc[t] = "l_set"
    /\ eventsSet' = eventsSet \cup {event[t]}
    /\ Goto(t, "l_clean", result[t], exc[t])
    /\ UNCHANGED <<cacheVars, active_requests, nextEvent, results, errors, roleVars,
                   countVars, bound, fresh, lastPut, wave, winOutcome>>
    /\ UNCHANGED <<wbVars, routerVars, seqVars>>

\* The call records after the leader's cleanup, lines 59-61.
RecordsAfterCleanup(key) ==
    IF key \in DOMAIN active_requests THEN DictDel(active_requests, key)
    ELSE active_requests

\* do, lines 59-61 and 55/79: the record is deleted; the leader returns or raises.
LeaderCleanup(t) ==
    /\ pc[t] = "l_clean"
    /\ active_requests' = RecordsAfterCleanup(opKey[t])
    /\ Return(t, IF exc[t] = NoExc THEN Ok(result[t]) ELSE Raised(exc[t]), bound, fresh)
    /\ UNCHANGED <<cacheVars, eventsSet, nextEvent, results, errors, countVars,
                   lastPut>>
    /\ UNCHANGED <<wbVars, routerVars, seqVars>>

\* put, line 66: `with self.lock`
PutLock(t) ==
    /\ pc[t] = "put"
    /\ lock = 0
    /\ lock' = t
    /\ snap' = [snap EXCEPT ![t] = [storage |-> storage, eviction |-> eviction]]
    /\ pc' = [pc EXCEPT ![t] = "p_write"]
    /\ UNCHANGED <<storage, eviction, db, configVars, coalVars, callVars, roleVars,
                   result, exc, bound, fresh, nFail, histVars>>
    /\ UNCHANGED <<wbVars, routerVars, seqVars>>

\* A put that inserts although writer.write raised.
put_despite_write_error(st, pol, key, value) == put_internal(st, pol, key, value)

\* put, lines 68-72 when writer.write raises: _put_internal is not reached.
put_on_write_error(st, pol, key, value) ==
    [storage |-> st, eviction |-> pol, deleted |-> None, raised |-> TRUE]

\* put, lines 68-69: writer.write(key, value) of the write-through writer
\* (db.set, which may raise, lines 19-25 of the writer), or no writer.
PutWrite(t) ==
    /\ pc[t] = "p_write"
    /\ \/ /\ writerKind = "none"
          /\ Goto(t, "p_ins", result[t], exc[t])
          /\ UNCHANGED <<storage, eviction, lock, db, nFail, roleVars, bound, fresh,
                         histVars>>
       \/ /\ writerKind = "through"
          /\ db' = [db EXCEPT ![opKey[t]] = opVal[t]]
          /\ Goto(t, "p_ins", result[t], exc[t])
          /\ UNCHANGED <<storage, eviction, lock, nFail, roleVars, bound, fresh,
                         histVars>>
       \/ /\ writerKind = "through"
          /\ nFail < MaxFail
          /\ nFail' = nFail + 1
          /\ LET r == put_on_write_error(storage, eviction, opKey[t], opVal[t])
             IN /\ storage' = r.storage
                /\ eviction' = r.eviction
                /\ lastPut' = LastPutAfter(r.deleted, opKey[t], opVal[t], FALSE)
                /\ Return(t, Raised([val |-> "WriteFailed", err |-> 0]),
                          BoundAfter(r.deleted), fresh)
          /\ lock' = 0
          /\ UNCHANGED <<db, opsStarted>>
    /\ UNCHANGED <<configVars, coalVars>>
    /\ UNCHANGED <<wbVars, routerVars, seqVars>>

\* put, line 72: _put_internal, then the lock is released and put returns.
PutInternal(t) ==
    /\ pc[t] = "p_ins"
    /\ LET r == put_internal(storage, eviction, opKey[t], opVal[t])
       IN /\ storage' = r.storage
          /\ eviction' = r.eviction
          /\ lastPut' = LastPutAfter(r.deleted, opKey[t], opVal[t], ~r.raised)
          /\ Return(t, IF r.raised THEN Raised([val |-> "KeyError", err |-> 0])
                       ELSE Ok(None),
                    BoundAfter(r.deleted), FreshAfter(opKey[t], opVal[t], ~r.raised))
          /\ putLast' = PutLastAfter(opKey[t], opVal[t], ~r.raised)
    /\ lock' = 0
    /\ UNCHANGED <<db, configVars, coalVars, countVars>>
    /\ UNCHANGED <<wbVars, routerVars, seqOps, clock, touch, count, last>>

NodeNext ==
    \E t \in Threads :
        \/ CallGet(t)
        \/ CallPut(t)
        \/ GetCheck(t)
        \/ DoEnter(t)
        \/ FollowerWake(t)
        \/ FollowerResult(t)
        \/ LeaderLoad(t)
        \/ LeaderInsert(t)
        \/ LeaderStore(t)
        \/ LeaderErr(t)
        \/ LeaderSet(t)
        \/ LeaderCleanup(t)
        \/ PutLock(t)
        \/ PutWrite(t)
        \/ PutInternal(t)

\* --------------------------------- a node called by a single thread

\* Number of get/put calls of the single thread.
MaxSeqOps == 6
\* Largest capacity of its node.
MaxCapacity == 3

\* History of an access to key k that removed the key `deleted` from storage
\* (None when it removed none).
TouchAfter(k, deleted) ==
    [x \in SeqKeys |-> IF x = k THEN clock + 1
                       ELSE IF x = deleted THEN 0 ELSE touch[x]]

CountAfter(k, deleted) ==
    [x \in SeqKeys |-> IF x = k THEN count[x] + 1
                       ELSE IF x = deleted THEN 0 ELSE count[x]]

\* The call inserts (key, value) with _put_internal, lines 74-81.
SeqInsert(op, key, value) ==
    LET r == put_internal(storage, eviction, key, value)
    IN /\ storage' = r.storage
       /\ eviction' = r.eviction
       /\ last' = [op |-> op, key |-> key,
                   full |-> key \notin DOMAIN storage
                            /\ Cardinality(DOMAIN storage) >= cap,
                   removed |-> DOMAIN storage \ DOMAIN r.storage,
                   victim |-> r.deleted, raised |-> r.raised]
       /\ IF r.raised
          THEN UNCHANGED <<clock, touch, count>>
          ELSE /\ clock' = clock + 1
               /\ touch' = TouchAfter(key, r.deleted)
               /\ count' = CountAfter(key, r.deleted)

\* put(key, value), lines 65-72, of a node without writer.
SeqPut(key) ==
    /\ seqOps < MaxSeqOps
    /\ seqOps' = seqOps + 1
    /\ SeqInsert("put", key, "v1")
    /\ putLast' = PutLastAfter(key, "v1", ~last'.raised)
    /\ UNCHANGED <<lock, cap, hasLoader, writerKind, db, coalVars, thrVars, histVars>>
    /\ UNCHANGED <<wbVars, routerVars>>

\* get(key), lines 29-59: a hit, a load that is inserted, or a miss.
SeqGet(key) ==
    /\ seqOps < MaxSeqOps
    /\ seqOps' = seqOps + 1
    /\ IF key \in DOMAIN storage
       THEN /\ eviction' = on_access(eviction, key)
            /\ clock' = clock + 1
            /\ touch' = TouchAfter(key, None)
            /\ count' = CountAfter(key, None)
            /\ last' = [NoCall EXCEPT !.op = "get", !.key = key]
            /\ UNCHANGED storage
       ELSE IF hasLoader /\ InsertsLoaded(db[key])
       THEN SeqInsert("get", key, db[key])
       ELSE /\ last' = [NoCall EXCEPT !.op = "get", !.key = key]
            /\ UNCHANGED <<storage, eviction, clock, touch, count>>
    /\ UNCHANGED putLast
    /\ UNCHANGED <<lock, cap, hasLoader, writerKind, db, coalVars, thrVars, histVars>>
    /\ UNCHANGED <<wbVars, routerVars>>

SeqNext ==
    \/ \E key \in SeqKeys : SeqPut(key)
    \/ \E key \in SeqKeys : SeqGet(key)

\* ------------------------------------- an LFUPolicy called directly

\* Number of on_access/evict calls on the policy.
MaxPolicyOps == 5

\* on_access(key), lines 21-42.
PolicyOnAccess(key) ==
    /\ seqOps < MaxPolicyOps
    /\ seqOps' = seqOps + 1
    /\ eviction' = on_access(eviction, key)
    /\ clock' = clock + 1
    /\ touch' = TouchAfter(key, None)
    /\ count' = CountAfter(key, None)
    /\ last' = [NoCall EXCEPT !.op = "on_access", !.key = key]
    /\ UNCHANGED <<storage, lock, cap, hasLoader, writerKind, db, coalVars, thrVars,
                   histVars, putLast>>
    /\ UNCHANGED <<wbVars, routerVars>>

\* evict(), lines 46-63.
PolicyEvict ==
    /\ seqOps < MaxPolicyOps
    /\ seqOps' = seqOps + 1
    /\ LET r == evict(eviction)
       IN /\ eviction' = r.policy
          /\ last' = [NoCall EXCEPT !.op = "evict", !.victim = r.victim,
                                    !.raised = r.raised]
          /\ touch' = [x \in SeqKeys |-> IF x = r.victim THEN 0 ELSE touch[x]]
          /\ count' = [x \in SeqKeys |-> IF x = r.victim THEN 0 ELSE count[x]]
    /\ UNCHANGED <<clock, storage, lock, cap, hasLoader, writerKind, db, coalVars,
                   thrVars, histVars, putLast>>
    /\ UNCHANGED <<wbVars, routerVars>>

PolicyNext ==
    \/ \E key \in SeqKeys : PolicyOnAccess(key)
    \/ PolicyEvict

\* ------------------------------------------------ SafeWriteBackWriter

\* Number of write calls on the write-back writer.
MaxWrites == 3
\* Number of db.set calls of the worker that may raise.
MaxSetFail == 1

\* STOP_SIGNAL, line 11: an object that is no order.
STOP_SIGNAL == [key |-> "STOP_SIGNAL", value |-> "STOP_SIGNAL"]

NoItem == [key |-> None, value |-> None]

nodeVarsButDb == <<storage, eviction, lock, cap, hasLoader, writerKind, coalVars,
                   thrVars, histVars, seqVars>>

WbInit ==
    /\ queue = <<>>
    /\ workerPc = "get"
    /\ item = NoItem
    /\ closePc = "none"
    /\ wbFail = 0
    /\ writeLog = <<>>
    /\ setLog = <<>>
    /\ writesAtClose = 0
    /\ failLog = {}

\* write, lines 23-24: the order is put on the queue.
WbWrite(k, v) ==
    /\ Len(writeLog) < MaxWrites
    /\ queue' = Append(queue, [key |-> k, value |-> v])
    /\ writeLog' = Append(writeLog, [key |-> k, value |-> v])
    /\ UNCHANGED <<workerPc, item, closePc, wbFail, setLog, writesAtClose, failLog>>
    /\ UNCHANGED <<nodeVars, routerVars>>

\* close, line 36: the stop signal is put on the queue.
WbClose ==
    /\ closePc = "none"
    /\ queue' = Append(queue, STOP_SIGNAL)
    /\ closePc' = "join"
    /\ writesAtClose' = Len(writeLog)
    /\ UNCHANGED <<workerPc, item, wbFail, writeLog, setLog, failLog>>
    /\ UNCHANGED <<nodeVars, routerVars>>

\* A close that does not wait for the worker.
JoinReturns_NoWait == TRUE

\* worker.join() returns once the worker thread has ended.
JoinReturns == workerPc = "exited"

\* close, lines 37-38: join the worker, then return.
WbJoin ==
    /\ closePc = "join"
    /\ JoinReturns
    /\ closePc' = "done"
    /\ UNCHANGED <<queue, workerPc, item, wbFail, writeLog, setLog, writesAtClose,
                   failLog>>
    /\ UNCHANGED <<nodeVars, routerVars>>

\* _flusher, lines 42-48: take the oldest item; the stop signal ends the loop.
WorkerGet ==
    /\ workerPc = "get"
    /\ queue # <<>>
    /\ item' = Head(queue)
    /\ queue' = Tail(queue)
    /\ workerPc' = IF Head(queue) = STOP_SIGNAL THEN "exited" ELSE "set"
    /\ UNCHANGED <<closePc, wbFail, writeLog, setLog, writesAtClose, failLog>>
    /\ UNCHANGED <<nodeVars, routerVars>>

\* A worker whose loop ends when db.set raises.
AfterSetError_Dies == "exited"

\* _flusher, lines 55-58: the except clause logs the error of db.set and the
\* loop goes on with the next queue.get().
AfterSetError == "get"

\* _flusher, lines 51-58: db.set(key, value); an error is logged and dropped.
WorkerSet ==
    /\ workerPc = "set"
    /\ setLog' = Append(setLog, item)
    /\ \/ /\ db' = [db EXCEPT ![item.key] = item.value]
          /\ workerPc' = "get"
          /\ UNCHANGED <<wbFail, failLog>>
       \/ /\ wbFail < MaxSetFail
          /\ wbFail' = wbFail + 1
          /\ failLog' = failLog \cup {Len(setLog) + 1}
          /\ workerPc' = AfterSetError
          /\ UNCHANGED db
    /\ UNCHANGED <<queue, item, closePc, writeLog, writesAtClose>>
    /\ UNCHANGED <<nodeVarsButDb, routerVars>>

WbNext ==
    \/ \E k \in Keys, v \in {"v1", "v2"} : WbWrite(k, v)
    \/ WbClose
    \/ WbJoin
    \/ WorkerGet
    \/ WorkerSet

\* ------------------------------------- a node with a write-back writer

\* A queue whose newest order is taken first.
enqueue_front(q, order) == <<order>> \o q

\* write, line 24: queue.Queue is first in, first out; put adds at the end.
enqueue(q, order) == Append(q, order)

\* put, lines 68-69, with the write-back writer: writer.write(key, value)
\* enqueues the order while the thread holds the node lock.
PutWriteBack(t) ==
    /\ pc[t] = "p_write"
    /\ writerKind = "back"
    /\ queue' = enqueue(queue, [key |-> opKey[t], value |-> opVal[t]])
    /\ writeLog' = Append(writeLog, [key |-> opKey[t], value |-> opVal[t]])
    /\ Goto(t, "p_ins", result[t], exc[t])
    /\ UNCHANGED <<cacheVars, coalVars, roleVars, nFail, bound, fresh, lastPut, wave,
                   winOutcome>>
    /\ UNCHANGED <<workerPc, item, closePc, wbFail, setLog, writesAtClose, failLog>>
    /\ UNCHANGED <<routerVars, seqVars>>

\* Threads put on the node, its writer is closed, the worker flushes.
BackNext ==
    \/ \E t \in Threads :
          \/ CallPut(t)
          \/ PutLock(t)
          \/ PutWriteBack(t)
          \/ PutInternal(t)
    \/ WbClose
    \/ WbJoin
    \/ WorkerGet
    \/ WorkerSet

\* ------------------------------------------------- ConsistentHashing

\* replicas, the default of the constructor.
replicas == 3

Labels == {"Node-0", "Node-1", "Node-2"}

RouteKeys == {"user:1", "user:2", "user:999"}

\* f"{node}:{i}"
VNode(node, i) == node \o ":" \o ToString(i)

\* _hash, lines 21-23: the md5 of the string as an integer; here its leading
\* 16 bits, which keep the order of the strings of the model.
hash(s) ==
    CASE s = "Node-0:0" -> 16282 [] s = "Node-0:1" -> 51248 [] s = "Node-0:2" -> 34707
      [] s = "Node-1:0" -> 23884 [] s = "Node-1:1" -> 34309 [] s = "Node-1:2" -> 5157
      [] s = "Node-2:0" -> 56216 [] s = "Node-2:1" -> 3986  [] s = "Node-2:2" -> 45639
      [] s = "user:1" -> 48561   [] s = "user:2" -> 64439   [] s = "user:999" -> 23941

\* `key in self.ring`
RingHas(r, pos) == \E i \in 1..Len(r) : r[i].pos = pos

\* self.ring[key]
RingGet(r, pos) == r[CHOOSE i \in 1..Len(r) : r[i].pos = pos].node

\* self.ring[key] = node: a new key goes last, an old one keeps its place.
RingSet(r, pos, node) ==
    IF RingHas(r, pos)
    THEN [i \in 1..Len(r) |-> IF r[i].pos = pos THEN [pos |-> pos, node |-> node]
                              ELSE r[i]]
    ELSE Append(r, [pos |-> pos, node |-> node])

\* del self.ring[key]
RingDel(r, pos) == SelectSeq(r, LAMBDA e : e.pos # pos)

\* bisect.bisect on a sorted list: the number of elements <= x.
bisect(sk, x) == Cardinality({i \in 1..Len(sk) : sk[i] <= x})

\* bisect.insort on a sorted list.
insort(sk, x) ==
    LET n == bisect(sk, x)
    IN SubSeq(sk, 1, n) \o <<x>> \o SubSeq(sk, n + 1, Len(sk))

\* list.remove(x): the first x leaves the list.
ListRemove(sk, x) ==
    LET i == CHOOSE j \in 1..Len(sk) : sk[j] = x /\ \A m \in 1..(j - 1) : sk[m] # x
    IN SubSeq(sk, 1, i - 1) \o SubSeq(sk, i + 1, Len(sk))

SeqHas(sk, x) == \E i \in 1..Len(sk) : sk[i] = x

\* add_node, lines 29-31, for one i.
add_node_step(rs, node, i) ==
    LET key == hash(VNode(node, i))
    IN [ring |-> RingSet(rs.ring, key, node),
        sorted_keys |-> insort(rs.sorted_keys, key)]

RECURSIVE add_node_from(_, _, _)
add_node_from(rs, node, i) ==
    IF i >= replicas THEN rs ELSE add_node_from(add_node_step(rs, node, i), node, i + 1)

\* add_node, lines 25-31.
ring_add_node(rs, node) == add_node_from(rs, node, 0)

\* remove_node, lines 36-39: the keys of the node, in the order of the dict.
KeysOf(r, node) ==
    LET own == SelectSeq(r, LAMBDA e : e.node = node)
    IN [i \in 1..Len(own) |-> own[i].pos]

EmptyRing == [ring |-> <<>>, sorted_keys |-> <<>>]

\* __init__, lines 12-19: add_node for each node of the list.
RECURSIVE ring_init(_)
ring_init(nodes) ==
    IF nodes = <<>> THEN EmptyRing
    ELSE ring_add_node(ring_init(SubSeq(nodes, 1, Len(nodes) - 1)), nodes[Len(nodes)])

\* A remove_node that leaves sorted_keys as it is.
sorted_keys_kept(sk, x) == sk

\* list.remove(x) for the sorted_keys of remove_node, line 43: an x that
\* occurs twice stays once.
sorted_keys_remove(sk, x) == ListRemove(sk, x)

\* remove_node, lines 41-43, for the keys collected: the ring left, and the
\* error that ended the loop if one did.
RECURSIVE remove_keys(_, _)
remove_keys(rs, keys) ==
    IF keys = <<>> THEN [ring |-> rs.ring, sorted_keys |-> rs.sorted_keys, raised |-> None]
    ELSE IF ~RingHas(rs.ring, Head(keys))
    THEN [ring |-> rs.ring, sorted_keys |-> rs.sorted_keys, raised |-> "KeyError"]
    ELSE IF ~SeqHas(rs.sorted_keys, Head(keys))
    THEN [ring |-> RingDel(rs.ring, Head(keys)), sorted_keys |-> rs.sorted_keys,
          raised |-> "ValueError"]
    ELSE remove_keys([ring |-> RingDel(rs.ring, Head(keys)),
                      sorted_keys |-> sorted_keys_remove(rs.sorted_keys, Head(keys))],
                     Tail(keys))

\* remove_node, lines 33-43.
ring_remove_node(rs, node) == remove_keys(rs, KeysOf(rs.ring, node))

\* A lookup by the key's hash modulo the number of positions.
get_node_modulo(rs, key) ==
    IF rs.ring = <<>> THEN None
    ELSE LET idx == hash(key) % Len(rs.sorted_keys)
         IN IF RingHas(rs.ring, rs.sorted_keys[idx + 1])
            THEN RingGet(rs.ring, rs.sorted_keys[idx + 1])
            ELSE "KeyError"

\* get_node, lines 45-59: the label of the first position after the key's,
\* None on an empty ring, or the error of a position without label.
get_node(rs, key) ==
    IF rs.ring = <<>> THEN None
    ELSE LET i == bisect(rs.sorted_keys, hash(key))
             idx == IF i = Len(rs.sorted_keys) THEN 0 ELSE i
         IN IF idx >= Len(rs.sorted_keys) THEN "IndexError"
            ELSE IF RingHas(rs.ring, rs.sorted_keys[idx + 1])
            THEN RingGet(rs.ring, rs.sorted_keys[idx + 1])
            ELSE "KeyError"

\* --------------------------------------------------- DistributedCache

\* Threads calling get/put on the router.
NumRouters == 1
\* Number of router get/put calls.
MaxRoutes == 2
\* Number of add_node/remove_node calls.
MaxTopo == 2

RThreads == 1..NumRouters

\* No call has been made on a ring directly.
RingCallInit ==
    /\ ringOps = 0
    /\ got = None
    /\ saved = EmptyRing
    /\ savedLabel = None
    /\ undo = "none"

\* DistributedCache.__init__, lines 17-19, for two nodes, but for the ring;
\* node 0 has a write-back writer, node 1 a write-through or a write-back one.
RouterStateInit(w) ==
    /\ node_map = <<"Node-0", "Node-1">>
    /\ writerOf = [l \in Labels |-> CASE l = "Node-0" -> "back"
                                       [] l = "Node-1" -> w
                                       [] OTHER -> "none"]
    /\ rpc = [t \in RThreads |-> "idle"]
    /\ rop = [t \in RThreads |-> "none"]
    /\ rkey = [t \in RThreads |-> None]
    /\ ridx = [t \in RThreads |-> 0]
    /\ rnode_key = [t \in RThreads |-> 0]
    /\ rname = [t \in RThreads |-> None]
    /\ rout = [t \in RThreads |-> "none"]
    /\ routed = 0
    /\ tpc = "idle"
    /\ tname = None
    /\ ti = 0
    /\ keys_to_remove = <<>>
    /\ topoOps = 0
    /\ cpc = "idle"
    /\ citer = 0
    /\ csize = 0
    /\ closeCalled = {}
    /\ closeMap = <<>>
    /\ RingCallInit

\* DistributedCache.__init__, lines 17-19, for two nodes.
RouterInitWith(w) ==
    /\ ring = ring_init(<<"Node-0", "Node-1">>).ring
    /\ sorted_keys = ring_init(<<"Node-0", "Node-1">>).sorted_keys
    /\ RouterStateInit(w)

RouterInit == \E w \in {"through", "back"} : RouterInitWith(w)

\* The router of a specification in which no thread calls it.
RouterIdle == RouterInitWith("through")

\* A thread calls get(key) or put(key, value) on the router.
RouteCall(t, op, key) ==
    /\ rpc[t] = "idle"
    /\ routed < MaxRoutes
    /\ routed' = routed + 1
    /\ rpc' = [rpc EXCEPT ![t] = "get_node"]
    /\ rop' = [rop EXCEPT ![t] = op]
    /\ rkey' = [rkey EXCEPT ![t] = key]
    /\ ridx' = [ridx EXCEPT ![t] = 0]
    /\ rnode_key' = [rnode_key EXCEPT ![t] = 0]
    /\ rname' = [rname EXCEPT ![t] = None]
    /\ rout' = [rout EXCEPT ![t] = "none"]
    /\ UNCHANGED <<node_map, writerOf, ringVars, topoVars, closeVars>>
    /\ UNCHANGED <<nodeVars, wbVars, ringCallVars>>

\* The router call of t ends: dispatched to a node, absent, or an error.
RouteEnd(t, how) ==
    /\ rpc' = [rpc EXCEPT ![t] = "idle"]
    /\ rout' = [rout EXCEPT ![t] = how]

\* get_node, lines 47-48: an empty ring has no node (get/put lines 24-26).
GetNodeEmpty(t) ==
    /\ rpc[t] = "get_node"
    /\ IF ring = <<>>
       THEN RouteEnd(t, "absent")
       ELSE /\ rpc' = [rpc EXCEPT ![t] = "bisect"]
            /\ UNCHANGED rout
    /\ UNCHANGED <<rop, rkey, ridx, rnode_key, rname, routed>>
    /\ UNCHANGED <<node_map, writerOf, ringVars, topoVars, closeVars>>
    /\ UNCHANGED <<nodeVars, wbVars, ringCallVars>>

\* get_node, lines 50-56: the index of the first position after the key's.
GetNodeBisect(t) ==
    /\ rpc[t] = "bisect"
    /\ LET idx == bisect(sorted_keys, hash(rkey[t]))
       IN ridx' = [ridx EXCEPT ![t] = IF idx = Len(sorted_keys) THEN 0 ELSE idx]
    /\ rpc' = [rpc EXCEPT ![t] = "node_key"]
    /\ UNCHANGED <<rop, rkey, rnode_key, rname, rout, routed>>
    /\ UNCHANGED <<node_map, writerOf, ringVars, topoVars, closeVars>>
    /\ UNCHANGED <<nodeVars, wbVars, ringCallVars>>

\* get_node, line 58: self.sorted_keys[idx]
GetNodeKey(t) ==
    /\ rpc[t] = "node_key"
    /\ IF ridx[t] < Len(sorted_keys)
       THEN /\ rnode_key' = [rnode_key EXCEPT ![t] = sorted_keys[ridx[t] + 1]]
            /\ rpc' = [rpc EXCEPT ![t] = "ring"]
            /\ UNCHANGED rout
       ELSE /\ RouteEnd(t, "IndexError")
            /\ UNCHANGED rnode_key
    /\ UNCHANGED <<rop, rkey, ridx, rname, routed>>
    /\ UNCHANGED <<node_map, writerOf, ringVars, topoVars, closeVars>>
    /\ UNCHANGED <<nodeVars, wbVars, ringCallVars>>

\* get_node, line 59: self.ring[node_key]
GetNodeRing(t) ==
    /\ rpc[t] = "ring"
    /\ IF RingHas(ring, rnode_key[t])
       THEN /\ rname' = [rname EXCEPT ![t] = RingGet(ring, rnode_key[t])]
            /\ rpc' = [rpc EXCEPT ![t] = "dispatch"]
            /\ UNCHANGED rout
       ELSE /\ RouteEnd(t, "KeyError:ring")
            /\ UNCHANGED rname
    /\ UNCHANGED <<rop, rkey, ridx, rnode_key, routed>>
    /\ UNCHANGED <<node_map, writerOf, ringVars, topoVars, closeVars>>
    /\ UNCHANGED <<nodeVars, wbVars, ringCallVars>>

\* `node_name in self.node_map`, the lookup of get line 28 and put line 38.
InNodeMap(name) == SeqHas(node_map, name)

\* get, lines 28-30, and put, lines 38-40: self.node_map[node_name], then
\* the call on the node.
Dispatch(t) ==
    /\ rpc[t] = "dispatch"
    /\ IF InNodeMap(rname[t])
       THEN RouteEnd(t, "dispatched")
       ELSE RouteEnd(t, "KeyError:node_map")
    /\ UNCHANGED <<rop, rkey, ridx, rnode_key, rname, routed>>
    /\ UNCHANGED <<node_map, writerOf, ringVars, topoVars, closeVars>>
    /\ UNCHANGED <<nodeVars, wbVars, ringCallVars>>

\* add_node, lines 42-43: self.node_map[name] = node, the ring comes next.
AddNodeMap(name) ==
    /\ tpc = "idle"
    /\ topoOps < MaxTopo
    /\ topoOps' = topoOps + 1
    /\ node_map' = IF SeqHas(node_map, name) THEN node_map ELSE Append(node_map, name)
    /\ tname' = name
    /\ ti' = 0
    /\ tpc' = "add_ring"
    /\ UNCHANGED <<keys_to_remove, writerOf, ringVars, routeVars, closeVars>>
    /\ UNCHANGED <<nodeVars, wbVars, ringCallVars>>

\* ConsistentHashing.add_node, lines 29-30: self.ring[key] = node
AddNodeRing ==
    /\ tpc = "add_ring"
    /\ ring' = RingSet(ring, hash(VNode(tname, ti)), tname)
    /\ tpc' = "add_sorted"
    /\ UNCHANGED <<tname, ti, keys_to_remove, topoOps, node_map, writerOf, sorted_keys,
                   routeVars, closeVars>>
    /\ UNCHANGED <<nodeVars, wbVars, ringCallVars>>

\* ConsistentHashing.add_node, line 31: bisect.insort(self.sorted_keys, key)
AddNodeSorted ==
    /\ tpc = "add_sorted"
    /\ sorted_keys' = insort(sorted_keys, hash(VNode(tname, ti)))
    /\ ti' = ti + 1
    /\ tpc' = IF ti + 1 >= replicas THEN "idle" ELSE "add_ring"
    /\ UNCHANGED <<tname, keys_to_remove, topoOps, node_map, writerOf, ring, routeVars,
                   closeVars>>
    /\ UNCHANGED <<nodeVars, wbVars, ringCallVars>>

\* remove_node, line 47: a name that is not in node_map changes nothing.
RemoveNodeCheck(name) ==
    /\ tpc = "idle"
    /\ topoOps < MaxTopo
    /\ topoOps' = topoOps + 1
    /\ tname' = name
    /\ tpc' = IF SeqHas(node_map, name) THEN "rem_collect" ELSE "idle"
    /\ UNCHANGED <<ti, keys_to_remove, node_map, writerOf, ringVars, routeVars,
                   closeVars>>
    /\ UNCHANGED <<nodeVars, wbVars, ringCallVars>>

\* ConsistentHashing.remove_node, lines 36-39: collect the keys of the node.
RemoveNodeCollect ==
    /\ tpc = "rem_collect"
    /\ keys_to_remove' = KeysOf(ring, tname)
    /\ tpc' = IF KeysOf(ring, tname) = <<>> THEN "rem_map" ELSE "rem_ring"
    /\ UNCHANGED <<tname, ti, topoOps, node_map, writerOf, ringVars, routeVars,
                   closeVars>>
    /\ UNCHANGED <<nodeVars, wbVars, ringCallVars>>

\* ConsistentHashing.remove_node, line 42: del self.ring[key]
RemoveNodeRing ==
    /\ tpc = "rem_ring"
    /\ ring' = RingDel(ring, Head(keys_to_remove))
    /\ tpc' = IF RingHas(ring, Head(keys_to_remove)) THEN "rem_sorted" ELSE "KeyError"
    /\ UNCHANGED <<tname, ti, keys_to_remove, topoOps, node_map, writerOf, sorted_keys,
                   routeVars, closeVars>>
    /\ UNCHANGED <<nodeVars, wbVars, ringCallVars>>

\* ConsistentHashing.remove_node, line 43: self.sorted_keys.remove(key)
RemoveNodeSorted ==
    /\ tpc = "rem_sorted"
    /\ IF SeqHas(sorted_keys, Head(keys_to_remove))
       THEN /\ sorted_keys' = ListRemove(sorted_keys, Head(keys_to_remove))
            /\ keys_to_remove' = Tail(keys_to_remove)
            /\ tpc' = IF Tail(keys_to_remove) = <<>> THEN "rem_map" ELSE "rem_ring"
       ELSE /\ tpc' = "ValueError"
            /\ UNCHANGED <<sorted_keys, keys_to_remove>>
    /\ UNCHANGED <<tname, ti, topoOps, node_map, writerOf, ring, routeVars, closeVars>>
    /\ UNCHANGED <<nodeVars, wbVars, ringCallVars>>

\* remove_node, line 49: del self.node_map[name]
RemoveNodeMap ==
    /\ tpc = "rem_map"
    /\ node_map' = SeqRemove(node_map, tname)
    /\ tpc' = "idle"
    /\ UNCHANGED <<tname, ti, keys_to_remove, topoOps, writerOf, ringVars, routeVars,
                   closeVars>>
    /\ UNCHANGED <<nodeVars, wbVars, ringCallVars>>

\* hasattr(node.writer, 'close') and node.writer, line 54: of the writers of
\* the repository only SafeWriteBackWriter has a close.
OffersClose(w) == w = "back"

\* close, line 53: the iteration over self.node_map.items() starts.
CloseStart ==
    /\ cpc = "idle"
    /\ cpc' = "iter"
    /\ citer' = 1
    /\ csize' = Len(node_map)
    /\ closeMap' = node_map
    /\ UNCHANGED <<closeCalled, node_map, writerOf, ringVars, routeVars, topoVars>>
    /\ UNCHANGED <<nodeVars, wbVars, ringCallVars>>

\* close, lines 53-56, for one entry: writer.close() returns or raises, and
\* an error leaves the loop. A dict that changed size ends the iteration
\* with RuntimeError.
CloseStep ==
    /\ cpc = "iter"
    /\ IF Len(node_map) # csize
       THEN /\ cpc' = "RuntimeError"
            /\ UNCHANGED <<citer, closeCalled>>
       ELSE IF citer > Len(node_map)
       THEN /\ cpc' = "returned"
            /\ UNCHANGED <<citer, closeCalled>>
       ELSE IF OffersClose(writerOf[node_map[citer]])
       THEN /\ closeCalled' = closeCalled \cup {node_map[citer]}
            /\ \/ /\ citer' = citer + 1
                  /\ cpc' = "iter"
               \/ /\ citer' = citer
                  /\ cpc' = "raised"
       ELSE /\ citer' = citer + 1
            /\ cpc' = "iter"
            /\ UNCHANGED closeCalled
    /\ UNCHANGED <<csize, closeMap, node_map, writerOf, ringVars, routeVars, topoVars>>
    /\ UNCHANGED <<nodeVars, wbVars, ringCallVars>>

RouterNext ==
    \/ \E t \in RThreads, op \in {"get", "put"}, k \in RouteKeys : RouteCall(t, op, k)
    \/ \E t \in RThreads :
          \/ GetNodeEmpty(t)
          \/ GetNodeBisect(t)
          \/ GetNodeKey(t)
          \/ GetNodeRing(t)
          \/ Dispatch(t)
    \/ \E name \in Labels : AddNodeMap(name)
    \/ AddNodeRing
    \/ AddNodeSorted
    \/ \E name \in Labels : RemoveNodeCheck(name)
    \/ RemoveNodeCollect
    \/ RemoveNodeRing
    \/ RemoveNodeSorted
    \/ RemoveNodeMap
    \/ CloseStart
    \/ CloseStep

\* ------------------------------- ConsistentHashing called directly

\* Number of calls made on the ring.
MaxRingOps == 4
\* Length of the node list the ring is built from.
MaxInitNodes == 2

\* The node lists a ring is built from, a label twice included.
InitNodeLists ==
    UNION {[1..n -> Labels] : n \in 0..MaxInitNodes}

ringNow == [ring |-> ring, sorted_keys |-> sorted_keys]

\* add_node(node), lines 25-31.
RingAddNode(node) ==
    /\ ringOps < MaxRingOps
    /\ ringOps' = ringOps + 1
    /\ ring' = ring_add_node(ringNow, node).ring
    /\ sorted_keys' = ring_add_node(ringNow, node).sorted_keys
    /\ IF KeysOf(ring, node) = <<>>
       THEN /\ saved' = ringNow
            /\ savedLabel' = node
            /\ undo' = "added"
       ELSE /\ saved' = EmptyRing
            /\ savedLabel' = None
            /\ undo' = "none"
    /\ UNCHANGED <<got, node_map, writerOf, routeVars, topoVars, closeVars>>
    /\ UNCHANGED <<nodeVars, wbVars>>

\* remove_node(node), lines 33-43.
RingRemoveNode(node) ==
    /\ ringOps < MaxRingOps
    /\ ringOps' = ringOps + 1
    /\ ring' = ring_remove_node(ringNow, node).ring
    /\ sorted_keys' = ring_remove_node(ringNow, node).sorted_keys
    /\ IF undo = "added" /\ node = savedLabel
       THEN /\ undo' = "removed"
            /\ UNCHANGED <<saved, savedLabel>>
       ELSE /\ saved' = EmptyRing
            /\ savedLabel' = None
            /\ undo' = "none"
    /\ UNCHANGED <<got, node_map, writerOf, routeVars, topoVars, closeVars>>
    /\ UNCHANGED <<nodeVars, wbVars>>

\* get_node(key), lines 45-59.
RingGetNode(key) ==
    /\ ringOps < MaxRingOps
    /\ ringOps' = ringOps + 1
    /\ got' = get_node(ringNow, key)
    /\ saved' = EmptyRing
    /\ savedLabel' = None
    /\ undo' = "none"
    /\ UNCHANGED <<node_map, writerOf, ringVars, routeVars, topoVars, closeVars>>
    /\ UNCHANGED <<nodeVars, wbVars>>

RingNext ==
    \/ \E node \in Labels : RingAddNode(node)
    \/ \E node \in Labels : RingRemoveNode(node)
    \/ \E key \in RouteKeys : RingGetNode(key)

\* ------------------------------------------------------ specifications

vars == <<nodeVars, wbVars, routerVars>>

Init == NodeInit /\ WbInit /\ RouterIdle

Next == NodeNext

\* Threads calling get and put on one node.
Spec == Init /\ [][Next]_vars

\* The steps of a call of thread t that need the node lock to be free.
LockStep(t) == GetCheck(t) \/ LeaderInsert(t) \/ PutLock(t)

\* The other steps of a call of thread t.
RunStep(t) ==
    \/ DoEnter(t)
    \/ FollowerWake(t)
    \/ FollowerResult(t)
    \/ LeaderLoad(t)
    \/ LeaderStore(t)
    \/ LeaderErr(t)
    \/ LeaderSet(t)
    \/ LeaderCleanup(t)
    \/ PutWrite(t)
    \/ PutInternal(t)

\* Fair scheduling: a thread that can run does run, and a thread that finds
\* the lock free again and again gets it. loader.load and writer.write
\* return or raise (LeaderLoad, PutWrite).
SpecFair ==
    Spec /\ \A t \in Threads : WF_vars(RunStep(t)) /\ SF_vars(LockStep(t))

InitWriter == NodeIdle /\ WbInit /\ RouterIdle

\* A write-back writer, its callers and its worker.
SpecWriter == InitWriter /\ [][WbNext]_vars

\* The same, the worker thread being scheduled whenever it can take a step.
SpecWriterFair == SpecWriter /\ WF_vars(WorkerGet) /\ WF_vars(WorkerSet)

InitBack ==
    /\ \E policy \in {LRU_init, LFU_init} : NodeInitWith(policy, FALSE, "back")
    /\ WbInit
    /\ RouterIdle

\* A node whose writer is a SafeWriteBackWriter over the node's database.
SpecBack == InitBack /\ [][BackNext]_vars

InitRouter == NodeIdle /\ WbInit /\ RouterInit

\* The router, with threads routing calls, changing nodes and closing.
SpecRouter == InitRouter /\ [][RouterNext]_vars

InitSeq ==
    /\ \E policy \in {LRU_init, LFU_init} : NodeStateInit(policy, TRUE, "none")
    /\ cap \in 1..MaxCapacity
    /\ db = [k \in SeqKeys |-> IF k = "a" THEN "d" ELSE None]
    /\ WbInit
    /\ RouterIdle

\* A node with a loader, called by one thread, one call at a time.
SpecSeq == InitSeq /\ [][SeqNext]_vars

InitLFU ==
    /\ NodeStateInit(LFU_init, TRUE, "none")
    /\ cap = capacity
    /\ db = [k \in SeqKeys |-> None]
    /\ WbInit
    /\ RouterIdle

\* An LFUPolicy called by one thread, one call at a time.
SpecLFU == InitLFU /\ [][PolicyNext]_vars

InitRing ==
    /\ NodeIdle
    /\ WbInit
    /\ RouterStateInit("through")
    /\ \E nodes \in InitNodeLists :
          /\ ring = ring_init(nodes).ring
          /\ sorted_keys = ring_init(nodes).sorted_keys

\* A ring built from a node list, then called directly, one call at a time.
SpecRing == InitRing /\ [][RingNext]_vars

\* =============================================================== claims

\* ---- C1: the number of entries in storage never exceeds capacity, for any
\* interleaving of get and put over the keys (the empty string included).
C1_SizeWithinCapacity == Cardinality(DOMAIN storage) <= cap

\* ---- C2: a get(k) that begins after a put(k, v) has returned, k not being
\* deleted from storage since, returns v or the value of a put(k, .) that
\* returned later.
C2_NoStaleRead ==
    (ret.op = "get" /\ ret.bound)
    => (ret.outcome.kind = "ok" /\ ret.outcome.val \in ret.fresh)

\* ---- C3: when every thread calls get(k) on a node whose storage does not
\* hold k, all the calls being in progress together, loader.load(k) is
\* called exactly once and all the calls have the same outcome.
AllGetsTogether(k) ==
    /\ hasLoader
    /\ wave.size = NumThreads
    /\ wave.done = NumThreads
    /\ wave.calls = {<<"get", k>>}

C3_OneLoadSameOutcome ==
    \A k \in Keys :
        AllGetsTogether(k) => (wave.loads = 1 /\ Cardinality(wave.outcomes) = 1)

\* ---- C4: a follower that waited on a window's latch returns what that
\* window's leader returned, or raises what that leader raised.
C4_FollowerSeesLeaderOutcome ==
    (ret.follower /\ ret.event \in DOMAIN winOutcome)
    => ret.outcome = winOutcome[ret.event]

\* ---- C5: once close() of the write-back writer has returned, every order
\* whose write returned before close() was called has been passed to db.set,
\* and db.set saw those orders in the order of the write calls.
C5_CloseFlushesInOrder ==
    closePc = "done"
    => /\ Len(setLog) >= writesAtClose
       /\ SubSeq(setLog, 1, writesAtClose) = SubSeq(writeLog, 1, writesAtClose)

\* close() has returned after two different orders were written before it,
\* one of them failing in db.set.
C5_Witness ==
    /\ closePc = "done"
    /\ writesAtClose >= 2
    /\ writeLog[1] # writeLog[2]
    /\ wbFail > 0

\* ---- C6: after every get or put completes, the keys of storage are the
\* keys the eviction policy tracks.
C6_StorageMatchesPolicy ==
    (\A t \in Threads : pc[t] \in {"idle", "get", "put", "do", "f_wait", "f_res",
                                   "l_load", "l_store", "l_err", "l_set", "l_clean"})
    => DOMAIN storage = PolicyKeys(eviction)

\* ---- C7: when the write-through writer raises during put(k, v), the error
\* reaches the caller, storage and policy are what they were when the call
\* took the lock, and the lock is released.
WriteRaisedStep(t) == pc[t] = "p_write" /\ pc'[t] = "idle"

C7_WriteFailureLeavesNodeUnchanged ==
    [][\A t \in Threads :
          WriteRaisedStep(t)
          => (/\ ret'.thread = t
              /\ ret'.outcome = Raised([val |-> "WriteFailed", err |-> 0])
              /\ storage' = snap[t].storage
              /\ eviction' = snap[t].eviction
              /\ lock' = 0)]_vars

\* A put has raised WriteFailed on a node that holds keys, and another thread
\* has taken the lock since.
C7_Witness ==
    \E u \in Threads :
        /\ ret.outcome = Raised([val |-> "WriteFailed", err |-> 0])
        /\ ret.thread # u
        /\ storage # EmptyMap
        /\ pc[u] = "p_ins"
        /\ lock = u

\* ---- C8: when close() of the router ends, close() has been called on the
\* writer of every node of the mapping that offers one, even if the close()
\* of an earlier writer raised.
C8_CloseReachesEveryWriter ==
    cpc \in {"returned", "raised"}
    => \A i \in 1..Len(closeMap) :
          OffersClose(writerOf[closeMap[i]]) => closeMap[i] \in closeCalled

\* ---- C9: at most one thunk per key executes at any instant, a thunk for k
\* executes only while k has its call record, and the record is gone when
\* the leader's do() has returned: every record is that of a leader still
\* inside do().
InThunk(t) == pc[t] \in {"l_load", "l_ins"}

InLeaderDo(t) == pc[t] \in {"l_load", "l_ins", "l_store", "l_err", "l_set", "l_clean"}

C9_OneThunkUnderRecord ==
    /\ \A k \in Keys : Cardinality({t \in Threads : InThunk(t) /\ opKey[t] = k}) <= 1
    /\ \A t \in Threads :
          InThunk(t) => /\ opKey[t] \in DOMAIN active_requests
                        /\ active_requests[opKey[t]] = event[t]
    /\ \A k \in DOMAIN active_requests :
          \E t \in Threads : /\ InLeaderDo(t)
                             /\ opKey[t] = k
                             /\ event[t] = active_requests[k]

\* A leader runs its thunk while another thread waits on the same window,
\* after an earlier window of the same key.
C9_Witness ==
    \E t, u \in Threads :
        /\ InThunk(t)
        /\ pc[u] = "f_wait"
        /\ event[u] = event[t]
        /\ event[t] > 1

\* ---- C10: a router get or put running while nodes are added or removed
\* finds the label of its ring lookup in node_map at dispatch: no call ends
\* with the KeyError of a missing label.
C10_DispatchFindsLabel ==
    \A t \in RThreads : rout[t] # "KeyError:node_map"

\* ---- C11: when db.set raises for an order of the write-back writer, no
\* write caller sees the error, the worker goes on (it ends only on the stop
\* signal), and every order enqueued after the failing one and before the
\* stop signal is passed to db.set in its turn.
BeforeStop(i) ==
    Len(writeLog) >= i /\ (closePc = "none" \/ i <= writesAtClose)

C11_WorkerSurvivesSetError ==
    /\ [](workerPc = "exited" => item = STOP_SIGNAL)
    /\ \A i \in 1..MaxWrites :
          (BeforeStop(i) /\ \E j \in failLog : j < i)
          ~> (Len(setLog) >= i /\ setLog[i] = writeLog[i])

\* db.set raised for the first order, and the two orders after it have been
\* passed to db.set.
C11_Witness ==
    /\ 1 \in failLog
    /\ Len(setLog) >= 3
    /\ workerPc = "get"

\* ---- C12: a get(k) that misses and whose load returns None or raises
\* changes neither storage nor the eviction policy in any of its steps, and
\* when the load raised the caller of that get sees the error.
LoadedNothing(t) ==
    /\ opKind[t] = "get"
    /\ \/ pc[t] \in {"l_ins", "l_store", "l_set", "l_clean"}
          /\ exc[t] = NoExc /\ result[t] = None
       \/ pc[t] \in {"l_err", "l_set", "l_clean"} /\ exc[t].val = "LoadFailed"

MissStep(t) ==
    /\ pc'[t] # pc[t]
    /\ \/ pc[t] = "get" /\ opKey[t] \notin DOMAIN storage
       \/ pc[t] \in {"do", "l_load"}
       \/ LoadedNothing(t)

C12_FailedLoadLeavesNodeUnchanged ==
    [][\A t \in Threads :
          MissStep(t)
          => /\ storage' = storage
             /\ eviction' = eviction
             /\ (pc[t] = "l_clean" /\ exc[t].val = "LoadFailed")
                => (ret'.thread = t /\ ret'.outcome = Raised(exc[t]))]_vars

\* A get has raised the error of its load on a node that holds a key.
C12_Witness ==
    /\ ret.op = "get"
    /\ ~ret.follower
    /\ ret.outcome.kind = "err"
    /\ ret.outcome.val = "LoadFailed"
    /\ storage # EmptyMap

\* ---- C13: on a ring without label D, add_node(D) then remove_node(D)
\* gives back the ring as it was (sorted_keys and the position-to-label
\* map), and get_node returns for every key what it returned before.
C13_AddRemoveRestoresRing ==
    undo = "removed"
    => /\ ringNow = saved
       /\ \A key \in RouteKeys : get_node(ringNow, key) = get_node(saved, key)

\* A label was added to a ring of another label and removed again, and it
\* had taken a key from that label.
C13_Witness ==
    /\ undo = "removed"
    /\ saved.ring # <<>>
    /\ \E key \in RouteKeys :
          get_node(ring_add_node(saved, savedLabel), key) # get_node(saved, key)

\* ---- C14: after any sequence of add_node and remove_node calls (a label
\* added twice and a ring built from a node list included) every label of
\* the ring has replicas positions, sorted_keys is sorted, its positions are
\* the keys of the position-to-label map, and get_node finds a label at the
\* position it selects.
C14_RingWellFormed ==
    /\ \A node \in Labels : Len(KeysOf(ring, node)) \in {0, replicas}
    /\ \A i, j \in 1..Len(sorted_keys) : i < j => sorted_keys[i] <= sorted_keys[j]
    /\ {sorted_keys[i] : i \in 1..Len(sorted_keys)} = {ring[i].pos : i \in 1..Len(ring)}
    /\ got # "KeyError"

\* C15: in LFUPolicy, after every on_access or evict call, when key_freq is
\* non-empty min_freq is the minimum value of key_freq, and freq_keys has no
\* empty bucket.
C15_MinFreqIsMinimum ==
    (eviction.kind = "LFU" /\ last.op \in {"on_access", "evict"}) =>
        /\ DOMAIN eviction.key_freq # {} =>
              /\ \E k \in DOMAIN eviction.key_freq :
                    eviction.key_freq[k] = eviction.min_freq
              /\ \A k \in DOMAIN eviction.key_freq :
                    eviction.key_freq[k] >= eviction.min_freq
        /\ \A f \in DOMAIN eviction.freq_keys : eviction.freq_keys[f] # <<>>

\* The held key evict() has to remove: of the smallest access count, and the
\* one touched longest ago among those.
LeastUsed(held) ==
    CHOOSE k \in held : \A j \in held :
        count[k] < count[j] \/ (count[k] = count[j] /\ touch[k] <= touch[j])

\* C16: evict() on an LFUPolicy that holds a key removes and returns the held
\* key of minimal frequency touched longest ago, without failing, and
\* returns absent only when the policy holds no key.
C16_EvictReturnsHeldKey ==
    [][(eviction.kind = "LFU" /\ last'.op = "evict" /\ seqOps' # seqOps) =>
          /\ ~last'.raised
          /\ IF PolicyKeys(eviction) = {}
             THEN last'.victim = None /\ eviction' = eviction
             ELSE /\ last'.victim = LeastUsed(PolicyKeys(eviction))
                  /\ PolicyKeys(eviction') = PolicyKeys(eviction) \ {last'.victim}]_vars

\* The resident key whose most recent access is the oldest.
LeastRecent(resident) ==
    CHOOSE k \in resident : \A j \in resident : touch[k] <= touch[j]

\* C17: in a node with an LRU policy, the insert of a non-resident key into a
\* full node removes from storage the resident key whose most recent access
\* (get hit, load insert or put) is the oldest.
C17_LRUEvictsLeastRecent ==
    [][(eviction.kind = "LRU" /\ last'.full /\ seqOps' # seqOps) =>
          /\ ~last'.raised
          /\ DOMAIN storage \ DOMAIN storage' = {LeastRecent(DOMAIN storage)}
          /\ DOMAIN storage' \ DOMAIN storage = {last'.key}]_vars

\* C18: in a node with an LFU policy, the insert of a non-resident key into a
\* full node removes from storage the resident key of the smallest access
\* count (its insertion and every later get hit or put), and of those the
\* one that reached the count earliest.
C18_LFUEvictsLeastUsed ==
    [][(eviction.kind = "LFU" /\ last'.full /\ seqOps' # seqOps) =>
          /\ ~last'.raised
          /\ DOMAIN storage \ DOMAIN storage' = {LeastUsed(DOMAIN storage)}
          /\ DOMAIN storage' \ DOMAIN storage = {last'.key}]_vars

\* C19: no thread holds the node mutex while it waits on a coalescer latch
\* or runs loader.load; a get holds it only inside the hit check and inside
\* the insert, never between its steps.
C19_NoLockWhileWaitingOrLoading ==
    /\ \A t \in Threads : pc[t] \in {"f_wait", "l_load"} => lock # t
    /\ \A t \in Threads : opKind[t] = "get" => lock # t

\* A follower blocked on the latch of a leader that is in loader.load.
C19_Witness ==
    \E t, u \in Threads :
        /\ pc[t] = "f_wait" /\ event[t] \notin eventsSet
        /\ pc[u] = "l_load" /\ event[u] = event[t]
        /\ lock = 0

\* C20: under fair scheduling every get and put on a node returns or raises;
\* a follower waiting on a latch is released whether the leader's thunk
\* returns or raises.
C20_EveryCallReturns ==
    \A t \in Threads : (pc[t] # "idle") ~> (pc[t] = "idle")

\* A follower has raised the error of its leader's thunk.
C20_Witness ==
    /\ ret.op = "get" /\ ret.follower
    /\ ret.outcome.kind = "err"
    /\ ret.outcome.val \in {"LoadFailed", "KeyError"}

\* All calls on the node have returned and close() of its writer has
\* returned, no db.set having failed.
PutsAndCloseReturned ==
    /\ writerKind = "back"
    /\ \A t \in Threads : pc[t] = "idle"
    /\ closePc = "done"
    /\ failLog = {}

\* The database holds the last put of every key that was put.
DbHoldsLastPuts ==
    \A k \in Keys : putLast[k] # None => db[k] = putLast[k]

\* C21 as stated: on a node with a write-back writer whose db.set never
\* fails, once all puts and close() have returned the database value of
\* every key that was put is the value of the last put of that key.
C21_DbHoldsLastPuts == PutsAndCloseReturned => DbHoldsLastPuts

\* C21: the same for puts whose writer.write was called before close() was:
\* once they and close() have returned the database value of every key that
\* was put is the value of the last put of that key.
C21_DbHoldsLastPutsBeforeClose ==
    (PutsAndCloseReturned /\ Len(writeLog) = writesAtClose) => DbHoldsLastPuts

\* Two puts of one key with different values, then close(), have returned.
C21_Witness ==
    /\ PutsAndCloseReturned /\ Len(writeLog) = writesAtClose
    /\ \E i, j \in 1..Len(writeLog) :
          i < j /\ writeLog[i].key = writeLog[j].key
                /\ writeLog[i].value # writeLog[j].value

\* The labels on the ring.
LabelsIn(r) == {r[i].node : i \in 1..Len(r)}

\* No position is twice in sorted_keys, and sorted_keys holds the positions
\* of the ring.
DistinctPositions(rs) ==
    /\ \A i, j \in 1..Len(rs.sorted_keys) :
          i # j => rs.sorted_keys[i] # rs.sorted_keys[j]
    /\ {rs.sorted_keys[i] : i \in 1..Len(rs.sorted_keys)}
          = {rs.ring[i].pos : i \in 1..Len(rs.ring)}

\* The step is add_node(D) of a label the ring does not have.
AddsNewLabel(D) ==
    /\ ringOps' # ringOps
    /\ D \notin LabelsIn(ring)
    /\ ringNow' = ring_add_node(ringNow, D)

\* The step is remove_node(D).
RemovesLabel(D) ==
    /\ ringOps' # ringOps
    /\ D \in LabelsIn(ring)
    /\ ring' = ring_remove_node(ringNow, D).ring
    /\ sorted_keys' = ring_remove_node(ringNow, D).sorted_keys

\* C22: on a ring with distinct positions, adding a new label D leaves
\* get_node(key) as it was or makes it D, for every key; removing a label
\* changes get_node(key) only for the keys that were assigned to it.
C22_OnlyKeysOfTheLabelMove ==
    [][DistinctPositions(ringNow) =>
          \A D \in Labels, key \in RouteKeys :
              /\ AddsNewLabel(D) =>
                    get_node(ringNow', key) \in {get_node(ringNow, key), D}
              /\ RemovesLabel(D) =>
                    (get_node(ringNow', key) # get_node(ringNow, key)
                       => get_node(ringNow, key) = D)]_vars

\* A new label was added to a ring of other labels with distinct positions
\* and took one key from another label while another key stayed.
C22_Witness ==
    /\ undo = "added"
    /\ DistinctPositions(saved)
    /\ ringNow = ring_add_node(saved, savedLabel)
    /\ \E key \in RouteKeys :
          /\ get_node(ringNow, key) = savedLabel
          /\ get_node(saved, key) \in LabelsIn(saved.ring)
    /\ \E key \in RouteKeys :
          get_node(ringNow, key) = get_node(saved, key)

====
